---- MODULE Spec2Model ----
(***************************************************************************)
(* Data Processing Service (applications/data-processor/main.py).          *)
(*                                                                         *)
(* The service is a FastAPI application with four handlers and no mutable  *)
(* module-level state.  Every handler is an `async def` without an await,  *)
(* so the event loop runs each one to completion: one action per handler.  *)
(* The state of the model is the wall clock read by time.time() and the    *)
(* history of request/response exchanges seen by clients (`log`), which    *)
(* the program itself never reads.                                         *)
(***************************************************************************)
EXTENDS Integers, Sequences, FiniteSets, TLC

VARIABLES clock, log

vars == <<clock, log>>

(* ------------------------------ bounds --------------------------------- *)

\* time.time() is a float; the model clock counts 1/SubSec of a second.
SubSec == 2
\* first clock reading, in whole seconds (9 so that the id grows a digit)
StartSec == 9
\* number of clock steps a run may take
MaxTicks == 3
\* number of requests a run may serve
MaxReq == 3

StartClock == StartSec * SubSec
MaxClock == StartClock + MaxTicks

(* --------------------------- pure functions ---------------------------- *)

\* int(time.time()): truncation of the clock reading to whole seconds
int_time(t) == t \div SubSec

DigitChars == <<"0", "1", "2", "3", "4", "5", "6", "7", "8", "9">>

\* the decimal rendering of a non-negative int inside an f-string
RECURSIVE str_int(_)
str_int(n) ==
    IF n < 10 THEN DigitChars[n + 1]
    ELSE str_int(n \div 10) \o DigitChars[(n % 10) + 1]

\* a handler's returned dict / model, sent by the framework with status 200
JSONResponse(content) == [code |-> 200, body |-> content]

\* ProcessingRequest: operation_type and data_source are required strings,
\* parameters defaults to {}.  Any string passes, the empty one included.
RequiredFields == {"operation_type", "data_source"}

IsValidBody(b) == RequiredFields \subseteq DOMAIN b

ProcessingRequest(b) ==
    [operation_type |-> b.operation_type,
     data_source    |-> b.data_source,
     parameters     |-> IF "parameters" \in DOMAIN b THEN b.parameters ELSE {}]

\* the framework's answer to a body the model rejects
ValidationError == [code |-> 422, body |-> [detail |-> "validation error"]]

(* ------------------------------ inputs --------------------------------- *)

Bodies ==
    { [operation_type |-> "",    data_source |-> "s3"],
      [operation_type |-> "etl", data_source |-> "s3",
       parameters |-> {<<"n", 3>>}],
      [operation_type |-> "etl", data_source |-> "db"],
      [data_source |-> "db"] }

\* path parameters of GET /api/tasks/{task_id}: every id the service can
\* hand out within the bounds, and one it never hands out
PathIds ==
    { "task_" \o str_int(s) : s \in int_time(StartClock) .. int_time(MaxClock) }
        \cup { "nope" }

(* ------------------------------ handlers ------------------------------- *)

\* the ids that successful submissions have returned so far (read by no
\* handler of the service; used by the properties and their mutants)
IssuedIds ==
    { log[i].resp.body.task_id :
        i \in { k \in 1..Len(log) : "task_id" \in DOMAIN log[k].resp.body
                                     /\ log[k].req.route = "process" } }

health_check_core(t) ==
    JSONResponse([status    |-> IF IssuedIds = {} THEN "healthy" ELSE "busy",
                  timestamp |-> t,
                  version   |-> "1.0.0"])

\* GET /health
health_check(t) ==
    JSONResponse([status |-> "healthy", timestamp |-> t, version |-> "1.0.0"])

\* GET /ready
readiness_check(t) ==
    JSONResponse([status |-> "ready", timestamp |-> t])

process_data_with_result(request, t) ==
    JSONResponse(
        [task_id        |-> "task_" \o str_int(int_time(t)),
         status         |-> "processing",
         message        |-> "Started " \o request.operation_type \o " processing",
         operation_type |-> request.operation_type,
         data_source    |-> request.data_source,
         result         |-> "Processing started"])

process_data_subsecond(request, t) ==
    JSONResponse(
        [task_id        |-> "task_" \o str_int(t),
         status         |-> "processing",
         message        |-> "Started " \o request.operation_type \o " processing",
         operation_type |-> request.operation_type,
         data_source    |-> request.data_source])

process_data_counter(request, t) ==
    JSONResponse(
        [task_id        |-> "task_" \o str_int(Cardinality(IssuedIds) + 1),
         status         |-> "processing",
         message        |-> "Started " \o request.operation_type \o " processing",
         operation_type |-> request.operation_type,
         data_source    |-> request.data_source])

\* POST /api/process, on a body that ProcessingRequest accepted
process_data(request, t) ==
    JSONResponse(
        [task_id        |-> "task_" \o str_int(int_time(t)),
         status         |-> "processing",
         message        |-> "Started " \o request.operation_type \o " processing",
         operation_type |-> request.operation_type,
         data_source    |-> request.data_source])

get_task_status_by_parity(task_id) ==
    JSONResponse(
        [task_id |-> task_id,
         status  |-> IF int_time(clock) % 2 = 0 THEN "processing" ELSE "completed",
         result  |-> "Processing completed for " \o task_id])

get_task_status_timestamped(task_id) ==
    JSONResponse(
        [task_id |-> task_id,
         status  |-> "completed",
         result  |-> "Processing completed at " \o str_int(clock)])

get_task_status_checked(task_id) ==
    IF task_id \in IssuedIds
    THEN JSONResponse(
             [task_id |-> task_id,
              status  |-> "completed",
              result  |-> "Processing completed for " \o task_id])
    ELSE [code |-> 404, body |-> [detail |-> "task not found"]]

\* GET /api/tasks/{task_id}
get_task_status(task_id) ==
    JSONResponse(
        [task_id |-> task_id,
         status  |-> "completed",
         result  |-> "Processing completed for " \o task_id])

\* the route table: the response to request req made at clock reading t
Handle(req, t) ==
    CASE req.route = "health"  -> health_check(t)
      [] req.route = "ready"   -> readiness_check(t)
      [] req.route = "process" ->
            IF IsValidBody(req.body)
            THEN process_data(ProcessingRequest(req.body), t)
            ELSE ValidationError
      [] req.route = "task"    -> get_task_status(req.task_id)

Exchange(req) == [req |-> req, at |-> clock, resp |-> Handle(req, clock)]

(* ------------------------------- actions ------------------------------- *)

Init ==
    /\ clock = StartClock
    /\ log = <<>>

\* the wall clock advances between requests
Tick ==
    /\ clock < MaxClock
    /\ clock' = clock + 1
    /\ UNCHANGED log

HealthCheck ==
    /\ Len(log) < MaxReq
    /\ log' = Append(log, Exchange([route |-> "health"]))
    /\ UNCHANGED clock

ReadinessCheck ==
    /\ Len(log) < MaxReq
    /\ log' = Append(log, Exchange([route |-> "ready"]))
    /\ UNCHANGED clock

ProcessData ==
    /\ Len(log) < MaxReq
    /\ \E b \in Bodies :
          log' = Append(log, Exchange([route |-> "process", body |-> b]))
    /\ UNCHANGED clock

GetTaskStatus ==
    /\ Len(log) < MaxReq
    /\ \E id \in PathIds :
          log' = Append(log, Exchange([route |-> "task", task_id |-> id]))
    /\ UNCHANGED clock

Next ==
    \/ Tick
    \/ HealthCheck
    \/ ReadinessCheck
    \/ ProcessData
    \/ GetTaskStatus

Spec == Init /\ [][Next]_vars

(* --------------------------- reading the log --------------------------- *)

Idx == 1 .. Len(log)

IsProbe(i)  == log[i].req.route \in {"health", "ready"}
IsSubmit(i) == log[i].req.route = "process"
IsLookup(i) == log[i].req.route = "task"

Body(i) == log[i].resp.body

\* submission i returned a task id
Issued(i) == IsSubmit(i) /\ "task_id" \in DOMAIN Body(i)

\* some submission before exchange i returned id
IssuedBefore(id, i) ==
    \E j \in Idx : j < i /\ Issued(j) /\ Body(j).task_id = id

HasStatus(i) == "status" \in DOMAIN Body(i)

\* an optional field of a response body, as a set of at most one value
Opt(i, f) == IF f \in DOMAIN Body(i) THEN {Body(i)[f]} ELSE {}

\* The order of task statuses the properties are stated in: Pending, then
\* Running, then Completed or Failed.  The service's responses use the
\* strings "processing" (submission) and "completed" (lookup); "processing"
\* is the wire name of a status before completion.
Terminal == {"completed", "failed"}
TaskStatuses == {"pending", "running", "processing"} \cup Terminal

Rank(s) ==
    CASE s = "pending" -> 0
      [] s \in {"running", "processing"} -> 1
      [] s \in Terminal -> 2
      [] OTHER -> 3

\* status s2 may be observed after status s1
Walk(s1, s2) ==
    /\ s1 \in TaskStatuses /\ s2 \in TaskStatuses
    /\ Rank(s1) <= Rank(s2)
    /\ (s1 \in Terminal => s2 = s1)

\* the observations of the task submitted by exchange i: its own response
\* and the later lookups of the id it was given
Observations(i) ==
    {i} \cup { j \in Idx : /\ j > i
                           /\ IsLookup(j)
                           /\ log[j].req.task_id = Body(i).task_id }

(* ------------------------------- claims -------------------------------- *)

\* C1: a status lookup of an id that no earlier submission returned yields
\* NotFound (HTTP 404).
C1_UnknownIdNotFound ==
    \A i \in Idx :
        (IsLookup(i) /\ ~IssuedBefore(log[i].req.task_id, i))
            => log[i].resp.code = 404

\* C2: no two submissions are given the same id.
C2_DistinctIds ==
    \A i, j \in Idx :
        (i < j /\ Issued(i) /\ Issued(j))
            => Body(i).task_id # Body(j).task_id

\* C3: a submission whose operation type is the empty string fails with
\* InvalidRequest (HTTP 400) and returns no task id.
C3_EmptyOperationTypeRejected ==
    \A i \in Idx :
        (/\ IsSubmit(i)
         /\ "operation_type" \in DOMAIN log[i].req.body
         /\ log[i].req.body.operation_type = "")
            => (log[i].resp.code = 400 /\ "task_id" \notin DOMAIN Body(i))

\* C4: the statuses reported for a submitted task, by its submission
\* response and then by the later lookups of its id, never regress and
\* follow Pending -> Running -> {Completed, Failed}.
C4_StatusWalk ==
    \A i \in Idx :
        Issued(i) =>
            \A a, b \in Observations(i) :
                (a < b /\ HasStatus(a) /\ HasStatus(b))
                    => Walk(Body(a).status, Body(b).status)

\* a task was submitted and its id looked up afterwards, in a later second
C4_Witness ==
    \E i, j \in Idx :
        /\ Issued(i) /\ j \in Observations(i) /\ j > i
        /\ int_time(log[j].at) > int_time(log[i].at)
        /\ Body(i).status = "processing"
        /\ HasStatus(j) /\ Body(j).status \in Terminal

\* C5: once a lookup has reported a terminal status for an id, every later
\* lookup of that id reports the same status and the same result.
C5_TerminalImmutable ==
    \A i, j \in Idx :
        (/\ i < j /\ IsLookup(i) /\ IsLookup(j)
         /\ log[i].req.task_id = log[j].req.task_id
         /\ HasStatus(i) /\ Body(i).status \in Terminal)
            => /\ Opt(j, "status") = Opt(i, "status")
               /\ Opt(j, "result") = Opt(i, "result")

\* two lookups of one id, a submission and a clock step between them
C5_Witness ==
    \E i, k, j \in Idx :
        /\ i < k /\ k < j
        /\ IsLookup(i) /\ IsLookup(j) /\ Issued(k)
        /\ log[i].req.task_id = log[j].req.task_id
        /\ log[i].at < log[j].at
        /\ HasStatus(i) /\ Body(i).status \in Terminal

\* C6: in a response that describes a task, a result goes with Completed
\* only, an error with Failed only, never both, and a response with a
\* non-terminal status carries neither.
C6_ResultErrorExclusive ==
    \A i \in Idx :
        "task_id" \in DOMAIN Body(i) =>
            /\ HasStatus(i)
            /\ ("result" \in DOMAIN Body(i) => Body(i).status = "completed")
            /\ ("error" \in DOMAIN Body(i) => Body(i).status = "failed")
            /\ ~({"result", "error"} \subseteq DOMAIN Body(i))
            /\ (Body(i).status \notin Terminal
                    => DOMAIN Body(i) \cap {"result", "error"} = {})

\* a submission response and a lookup response have both been sent
C6_Witness ==
    \E i, j \in Idx :
        /\ Issued(i) /\ Body(i).status = "processing"
        /\ IsLookup(j) /\ "result" \in DOMAIN Body(j)

\* C7: /health and /ready report "healthy" and "ready" whatever was
\* submitted or looked up before, and a submission or lookup answers the
\* same before and after them.
C7_ProbesIndependent ==
    /\ \A i \in Idx :
          /\ log[i].req.route = "health"
                => (log[i].resp.code = 200 /\ Opt(i, "status") = {"healthy"})
          /\ log[i].req.route = "ready"
                => (log[i].resp.code = 200 /\ Opt(i, "status") = {"ready"})
    /\ \A i, j \in Idx :
          (/\ i < j /\ ~IsProbe(i)
           /\ log[i].req = log[j].req /\ log[i].at = log[j].at
           /\ \A k \in Idx : (i < k /\ k < j) => IsProbe(k))
                => log[i].resp = log[j].resp

\* a task was submitted, a probe was answered, the submission was repeated
C7_Witness ==
    \E i, k, j \in Idx :
        /\ i < k /\ k < j
        /\ Issued(i) /\ log[k].req.route = "health"
        /\ log[j].req = log[i].req /\ log[j].at = log[i].at

\* C8: a status lookup reports "completed" and echoes the supplied id, for
\* every id, submitted or not.
C8_AlwaysCompleted ==
    \A i \in Idx :
        IsLookup(i) =>
            /\ log[i].resp.code = 200
            /\ Opt(i, "status") = {"completed"}
            /\ Opt(i, "task_id") = {log[i].req.task_id}

\* a lookup of an id never returned, and a lookup of an id returned at the
\* same clock reading
C8_Witness ==
    \E i, j \in Idx :
        /\ IsLookup(i) /\ ~IssuedBefore(log[i].req.task_id, i)
        /\ log[i].req.task_id \notin IssuedIds
        /\ IsLookup(j) /\ IssuedBefore(log[j].req.task_id, j)
        /\ Issued(j - 1) /\ log[j - 1].at = log[j].at

\* C9: two submissions return the same id exactly when they are made at the
\* same whole-second clock value.
C9_IdIsWholeSecond ==
    \A i, j \in Idx :
        (Issued(i) /\ Issued(j))
            => ((Body(i).task_id = Body(j).task_id)
                    <=> (log[i].at \div SubSec = log[j].at \div SubSec))

\* three submissions: two different ones at different readings within one
\* second, the third in another second
C9_Witness ==
    \E i, j, k \in Idx :
        /\ Issued(i) /\ Issued(j) /\ Issued(k)
        /\ log[i].req # log[j].req
        /\ log[i].at # log[j].at
        /\ log[i].at \div SubSec = log[j].at \div SubSec
        /\ log[k].at \div SubSec # log[i].at \div SubSec

\* C10: the response to a request depends on the request and the clock
\* reading only: replayed at the same reading after any further history it
\* is the response first given, and equal requests at equal readings were
\* answered equally.
C10_HistoryIndependent ==
    /\ \A i \in Idx : Handle(log[i].req, log[i].at) = log[i].resp
    /\ \A i, j \in Idx :
          (log[i].req = log[j].req /\ log[i].at = log[j].at)
              => log[i].resp = log[j].resp

\* a request answered on an empty history, a submission, and the first
\* request again at the same clock reading; the clock has since advanced
C10_Witness ==
    /\ Len(log) = 3
    /\ ~IsProbe(1) /\ Issued(2)
    /\ log[3].req = log[1].req /\ log[3].at = log[1].at
    /\ log[2].req # log[1].req
    /\ clock > log[3].at

====
